---- MODULE Spec2Model ----
(***************************************************************************)
(* Model of the lint pass LIBRARY_CRATES_STRUCTURED_ERRORS                 *)
(* (clippy_lints/src/library_crates_structured_errors.rs).                 *)
(*                                                                         *)
(* The pass object holds one field, is_library_crate : Option<bool>.  The  *)
(* host calls check_crate and then check_fn for the function-like bodies   *)
(* of the compilation unit; diagnostics go to a write-only sink.           *)
(* Option<T> is modelled as a sequence: None is <<>>, Some(x) is <<x>>.    *)
(***************************************************************************)
EXTENDS Naturals, Sequences, FiniteSets, Bags

VARIABLES
    crate_types,       \* the unit's declared output kinds (cx.tcx.crate_types())
    unit_fns,          \* the function-like bodies of the unit, in source order
    self_is_library_crate,  \* self.is_library_crate: <<>> (None) or <<b>> (Some(b))
    diags,             \* diagnostics handed to the sink in the current run
    idx,               \* number of bodies of unit_fns visited in the current run
    panicked,          \* the expect() in check_fn has failed (fatal to the pass)
    crate_checked,     \* check_crate has been called in the current run
    run,               \* 1 for the first analysis of the unit, 2 for the second
    pass_id,           \* which pass object is in use: a new one gets a new id
    prev_diags         \* the diagnostics of the first run, once it is over

vars == <<crate_types, unit_fns, self_is_library_crate, diags, idx, panicked,
          crate_checked, run, pass_id, prev_diags>>

\* Longest unit, in functions, of the multi-function scenarios.
MaxFns == 2

None == <<>>
Some(x) == <<x>>

(***************************************************************************)
(* Types (rustc_middle::ty::Ty), as far as the matcher inspects them.      *)
(***************************************************************************)
Adt(did, args) == [kind |-> "Adt", did |-> did, args |-> args, preds |-> {}]
Dynamic(preds) == [kind |-> "Dynamic", did |-> <<>>, args |-> <<>>, preds |-> preds]
Primitive(kind) == [kind |-> kind, did |-> <<>>, args |-> <<>>, preds |-> {}]

TraitPred(def_id) == [tag |-> "Trait", def_id |-> def_id]
AutoTraitPred(def_id) == [tag |-> "AutoTrait", def_id |-> def_id]
ProjectionPred(def_id) == [tag |-> "Projection", def_id |-> def_id]

ErrorTraitDid == <<"core", "error", "Error">>
ResultDid == <<"core", "result", "Result">>
StringDid == <<"alloc", "string", "String">>
BoxDid == <<"alloc", "boxed", "Box">>

\* The host's tables of language items and diagnostic items.
LangItems == [String |-> StringDid, OwnedBox |-> BoxDid]
DiagnosticItems == [Error |-> ErrorTraitDid, Result |-> ResultDid]

UnitTy == Primitive("Tuple")
U32Ty == Primitive("Uint")
StrRefTy == Primitive("Ref")
StringTy == Adt(StringDid, <<>>)
BoxTy(t) == Adt(BoxDid, <<t>>)
AnyhowErrorTy == Adt(<<"anyhow", "Error">>, <<>>)
EyreReportTy == Adt(<<"eyre", "Report">>, <<>>)
IoErrorTy == Adt(<<"std", "io", "Error">>, <<>>)
MyErrorTy == Adt(<<"mycrate", "MyError">>, <<>>)

\* User-defined nominal types whose paths resemble the two catalogued ones.
DecoyErrorTys ==
    { Adt(<<"mycrate", "Error">>, <<>>),
      Adt(<<"mycrate", "anyhow", "Error">>, <<>>),
      Adt(<<"anyhow", "Report">>, <<>>),
      Adt(<<"eyre", "Error">>, <<>>),
      Adt(<<"mycrate", "Report">>, <<>>) }

UserErrorTys == {MyErrorTy, IoErrorTy} \cup DecoyErrorTys

DynError == Dynamic({TraitPred(ErrorTraitDid)})
DynErrorSendSync ==
    Dynamic({TraitPred(ErrorTraitDid),
             AutoTraitPred(<<"core", "marker", "Send">>),
             AutoTraitPred(<<"core", "marker", "Sync">>)})
DynDebug == Dynamic({TraitPred(<<"core", "fmt", "Debug">>)})
DynDisplaySend ==
    Dynamic({TraitPred(<<"core", "fmt", "Display">>),
             AutoTraitPred(<<"core", "marker", "Send">>)})
DynIterator ==
    Dynamic({TraitPred(<<"core", "iter", "Iterator">>),
             ProjectionPred(<<"core", "iter", "Iterator", "Item">>)})

BoxedErrorTys == {BoxTy(DynError), BoxTy(DynErrorSendSync)}
BoxedOtherTys ==
    {BoxTy(DynDebug), BoxTy(DynDisplaySend), BoxTy(DynIterator),
     BoxTy(MyErrorTy), BoxTy(StringTy), BoxTy(U32Ty)}

(***************************************************************************)
(* Collaborators from clippy_utils and the host's type system.             *)
(***************************************************************************)
is_type_lang_item(ty, lang_item) ==
    ty.kind = "Adt" /\ LangItems[lang_item] = ty.did

is_diagnostic_item(name, def_id) == DiagnosticItems[name] = def_id

match_def_path(did, syms) == did = syms

boxed_ty(ty) == ty.args[1]

\* A return type as written: a path with its generic arguments.
HirTy(path, args, span) == [path |-> path, args |-> args, span |-> span]

\* The type the host's type system assigns to a written return type.  The
\* aliases anyhow::Result<T>, eyre::Result<T> and std::io::Result<T> are
\* expanded to the two-parameter Result.
lower_ty(hir_ty) ==
    IF hir_ty.path = <<"anyhow", "Result">>
    THEN Adt(ResultDid, <<hir_ty.args[1], AnyhowErrorTy>>)
    ELSE IF hir_ty.path = <<"eyre", "Result">>
    THEN Adt(ResultDid, <<hir_ty.args[1], EyreReportTy>>)
    ELSE IF hir_ty.path = <<"std", "io", "Result">>
    THEN Adt(ResultDid, <<hir_ty.args[1], IoErrorTy>>)
    ELSE IF hir_ty.path = <<"u32">>
    THEN U32Ty
    ELSE Adt(hir_ty.path, hir_ty.args)

\* Output type of the signature of the body with the given id.
fn_sig_output(fns, local_def_id) ==
    LET decl == fns[local_def_id].decl
    IN  IF decl.output = "Return" THEN lower_ty(decl.hir_ty) ELSE UnitTy

\* The signature extractor: Some((hir_ty, err_ty)) when the body's return
\* type is the two-variant Result; hir_ty.span covers the failure-type
\* annotation.
result_err_ty(fns, fn_, local_def_id, span) ==
    LET ty == fn_sig_output(fns, local_def_id)
    IN  IF /\ fn_.output = "Return"
           /\ ty.kind = "Adt"
           /\ is_diagnostic_item("Result", ty.did)
        THEN Some(<<fn_.hir_ty, ty.args[2]>>)
        ELSE None

(***************************************************************************)
(* The matcher and the classifier.                                         *)
(***************************************************************************)
\* Variant: every predicate of the trait object must be the Error trait.
is_overly_generic_error_type_all(ty) ==
    IF is_type_lang_item(ty, "String")
    THEN TRUE
    ELSE IF /\ is_type_lang_item(ty, "OwnedBox")
            /\ LET inner == boxed_ty(ty)
               IN  /\ inner.kind = "Dynamic"
                   /\ \A predicate \in inner.preds :
                        IF predicate.tag = "Trait"
                        THEN is_diagnostic_item("Error", predicate.def_id)
                        ELSE FALSE
    THEN TRUE
    ELSE IF (IF ty.kind = "Adt"
             THEN \/ match_def_path(ty.did, <<"anyhow", "Error">>)
                  \/ match_def_path(ty.did, <<"eyre", "Report">>)
             ELSE FALSE)
    THEN TRUE
    ELSE FALSE

\* Variant: the two path tests are joined by && instead of ||.
is_overly_generic_error_type_and(ty) ==
    IF is_type_lang_item(ty, "String")
    THEN TRUE
    ELSE IF /\ is_type_lang_item(ty, "OwnedBox")
            /\ LET inner == boxed_ty(ty)
               IN  /\ inner.kind = "Dynamic"
                   /\ \E predicate \in inner.preds :
                        IF predicate.tag = "Trait"
                        THEN is_diagnostic_item("Error", predicate.def_id)
                        ELSE FALSE
    THEN TRUE
    ELSE IF (IF ty.kind = "Adt"
             THEN /\ match_def_path(ty.did, <<"anyhow", "Error">>)
                  /\ match_def_path(ty.did, <<"eyre", "Report">>)
             ELSE FALSE)
    THEN TRUE
    ELSE FALSE

\* Variant: the nominal type is compared by the last segment of its path.
is_overly_generic_error_type_last_segment(ty) ==
    IF is_type_lang_item(ty, "String")
    THEN TRUE
    ELSE IF /\ is_type_lang_item(ty, "OwnedBox")
            /\ LET inner == boxed_ty(ty)
               IN  /\ inner.kind = "Dynamic"
                   /\ \E predicate \in inner.preds :
                        IF predicate.tag = "Trait"
                        THEN is_diagnostic_item("Error", predicate.def_id)
                        ELSE FALSE
    THEN TRUE
    ELSE IF (IF ty.kind = "Adt"
             THEN ty.did[Len(ty.did)] \in {"Error", "Report"}
             ELSE FALSE)
    THEN TRUE
    ELSE FALSE

is_overly_generic_error_type(ty) ==
    IF is_type_lang_item(ty, "String")
    THEN TRUE
    ELSE IF /\ is_type_lang_item(ty, "OwnedBox")
            /\ LET inner == boxed_ty(ty)
               IN  /\ inner.kind = "Dynamic"
                   /\ \E predicate \in inner.preds :
                        IF predicate.tag = "Trait"
                        THEN is_diagnostic_item("Error", predicate.def_id)
                        ELSE FALSE
    THEN TRUE
    ELSE IF (IF ty.kind = "Adt"
             THEN \/ match_def_path(ty.did, <<"anyhow", "Error">>)
                  \/ match_def_path(ty.did, <<"eyre", "Report">>)
             ELSE FALSE)
    THEN TRUE
    ELSE FALSE

CrateType == {"Executable", "Dylib", "Rlib", "Staticlib", "Cdylib", "ProcMacro"}

\* Variant: Staticlib is missing from the list of library kinds.
is_library_crate_no_staticlib(types) ==
    \E t \in types : t \in {"Cdylib", "Dylib", "Rlib", "ProcMacro"}

is_library_crate(types) ==
    \E t \in types : t \in {"Cdylib", "Dylib", "Rlib", "ProcMacro", "Staticlib"}

(***************************************************************************)
(* Diagnostics.                                                            *)
(***************************************************************************)
span_lint_and_note(sp, msg, note) == [span |-> sp, msg |-> msg, note |-> note]

(***************************************************************************)
(* The pass.                                                               *)
(***************************************************************************)
\* Variant: both branches store Some(true).
check_crate_always_true ==
    IF is_library_crate(crate_types)
    THEN self_is_library_crate' = Some(TRUE)
    ELSE self_is_library_crate' = Some(TRUE)

\* Variant: a pass object that is already classified is switched off.
check_crate_first_use_only ==
    IF self_is_library_crate = None /\ is_library_crate(crate_types)
    THEN self_is_library_crate' = Some(TRUE)
    ELSE self_is_library_crate' = Some(FALSE)

check_crate ==
    IF is_library_crate(crate_types)
    THEN self_is_library_crate' = Some(TRUE)
    ELSE self_is_library_crate' = Some(FALSE)

\* Variant: an unset classification is read as false (unwrap_or(false)).
check_fn_unwrap_or_false(fn_kind, fn_, span, local_def_id) ==
    IF self_is_library_crate = None
    THEN /\ panicked' = panicked
         /\ UNCHANGED <<self_is_library_crate, diags>>
    ELSE /\ panicked' = panicked
         /\ self_is_library_crate' = self_is_library_crate
         /\ IF ~self_is_library_crate[1]
            THEN diags' = diags
            ELSE IF fn_kind \in {"Method", "ItemFn"}
            THEN LET r == result_err_ty(unit_fns, fn_, local_def_id, span)
                 IN  IF r # None /\ is_overly_generic_error_type(r[1][2])
                     THEN diags' = Append(diags,
                              span_lint_and_note(r[1][1].span,
                                  "this is an unstructured error type",
                                  "try using an error enum"))
                     ELSE diags' = diags
            ELSE diags' = diags

\* Variant: the diagnostic is anchored at the span of the whole function.
check_fn_whole_span(fn_kind, fn_, span, local_def_id) ==
    IF self_is_library_crate = None
    THEN /\ panicked' = TRUE
         /\ UNCHANGED <<self_is_library_crate, diags>>
    ELSE /\ panicked' = panicked
         /\ self_is_library_crate' = self_is_library_crate
         /\ IF ~self_is_library_crate[1]
            THEN diags' = diags
            ELSE IF fn_kind \in {"Method", "ItemFn"}
            THEN LET r == result_err_ty(unit_fns, fn_, local_def_id, span)
                 IN  IF r # None /\ is_overly_generic_error_type(r[1][2])
                     THEN diags' = Append(diags,
                              span_lint_and_note(span,
                                  "this is an unstructured error type",
                                  "try using an error enum"))
                     ELSE diags' = diags
            ELSE diags' = diags

\* Variant: the classification is taken out of the field when read (take()).
check_fn_take(fn_kind, fn_, span, local_def_id) ==
    IF self_is_library_crate = None
    THEN /\ panicked' = TRUE
         /\ UNCHANGED <<self_is_library_crate, diags>>
    ELSE /\ panicked' = panicked
         /\ self_is_library_crate' = None
         /\ IF ~self_is_library_crate[1]
            THEN diags' = diags
            ELSE IF fn_kind \in {"Method", "ItemFn"}
            THEN LET r == result_err_ty(unit_fns, fn_, local_def_id, span)
                 IN  IF r # None /\ is_overly_generic_error_type(r[1][2])
                     THEN diags' = Append(diags,
                              span_lint_and_note(r[1][1].span,
                                  "this is an unstructured error type",
                                  "try using an error enum"))
                     ELSE diags' = diags
            ELSE diags' = diags

\* Variant: the test of fn_kind is missing.
check_fn_any_kind(fn_kind, fn_, span, local_def_id) ==
    IF self_is_library_crate = None
    THEN /\ panicked' = TRUE
         /\ UNCHANGED <<self_is_library_crate, diags>>
    ELSE /\ panicked' = panicked
         /\ self_is_library_crate' = self_is_library_crate
         /\ IF ~self_is_library_crate[1]
            THEN diags' = diags
            ELSE IF fn_kind \in {"Method", "ItemFn", "Closure"}
            THEN LET r == result_err_ty(unit_fns, fn_, local_def_id, span)
                 IN  IF r # None /\ is_overly_generic_error_type(r[1][2])
                     THEN diags' = Append(diags,
                              span_lint_and_note(r[1][1].span,
                                  "this is an unstructured error type",
                                  "try using an error enum"))
                     ELSE diags' = diags
            ELSE diags' = diags

check_fn(fn_kind, fn_, span, local_def_id) ==
    IF self_is_library_crate = None
    THEN /\ panicked' = TRUE
         /\ UNCHANGED <<self_is_library_crate, diags>>
    ELSE /\ panicked' = panicked
         /\ self_is_library_crate' = self_is_library_crate
         /\ IF ~self_is_library_crate[1]
            THEN diags' = diags
            ELSE IF fn_kind \in {"Method", "ItemFn"}
            THEN LET r == result_err_ty(unit_fns, fn_, local_def_id, span)
                 IN  IF r # None /\ is_overly_generic_error_type(r[1][2])
                     THEN diags' = Append(diags,
                              span_lint_and_note(r[1][1].span,
                                  "this is an unstructured error type",
                                  "try using an error enum"))
                     ELSE diags' = diags
            ELSE diags' = diags

(***************************************************************************)
(* The units analysed.                                                     *)
(***************************************************************************)
FnKind == {"ItemFn", "Method", "Closure"}

ResultOf(ok, err) == [output |-> "Return", path |-> ResultDid, args |-> <<ok, err>>]
Written(path, args) == [output |-> "Return", path |-> path, args |-> args]
NoReturnType == [output |-> "DefaultReturn", path |-> <<>>, args |-> <<>>]

AnyhowDirect == ResultOf(UnitTy, AnyhowErrorTy)
AnyhowAlias == Written(<<"anyhow", "Result">>, <<UnitTy>>)
EyreDirect == ResultOf(UnitTy, EyreReportTy)
EyreAlias == Written(<<"eyre", "Result">>, <<UnitTy>>)

\* Return types whose failure type is one of the catalogued shapes.
GenericReturns ==
    {ResultOf(UnitTy, StringTy), ResultOf(U32Ty, StringTy)}
    \cup {ResultOf(UnitTy, t) : t \in BoxedErrorTys}
    \cup {AnyhowDirect, AnyhowAlias, EyreDirect, EyreAlias}

\* Results with any other failure type.
StructuredReturns ==
    {ResultOf(UnitTy, t) : t \in UserErrorTys \cup BoxedOtherTys}
    \cup {ResultOf(StringTy, MyErrorTy), ResultOf(AnyhowErrorTy, MyErrorTy),
          ResultOf(UnitTy, U32Ty), ResultOf(UnitTy, StrRefTy),
          Written(<<"std", "io", "Result">>, <<UnitTy>>)}

\* Return types that are not the two-variant result.
NonResultReturns ==
    {NoReturnType,
     Written(<<"u32">>, <<>>),
     Written(StringDid, <<>>),
     Written(<<"anyhow", "Error">>, <<>>),
     Written(BoxDid, <<DynError>>),
     Written(<<"core", "option", "Option">>, <<StringTy>>),
     Written(<<"mycrate", "Result">>, <<UnitTy, StringTy>>)}

Returns == GenericReturns \cup StructuredReturns \cup NonResultReturns

FnShapes == {[fn_kind |-> k, ret |-> r] : k \in FnKind, r \in Returns}

\* The shapes of the multi-function scenarios.
ScenarioShapes ==
    {[fn_kind |-> "ItemFn", ret |-> AnyhowDirect],
     [fn_kind |-> "ItemFn", ret |-> AnyhowAlias],
     [fn_kind |-> "Method", ret |-> EyreAlias],
     [fn_kind |-> "ItemFn", ret |-> ResultOf(UnitTy, MyErrorTy)],
     [fn_kind |-> "Closure", ret |-> ResultOf(UnitTy, StringTy)],
     [fn_kind |-> "ItemFn", ret |-> NoReturnType]}

ScenarioCrateTypes == {{}, {"Executable"}, {"Rlib"}, {"Executable", "Cdylib"}}

\* Source layout: the i-th body occupies [100 i, 100 i + 99], its
\* failure-type annotation [100 i + 30, 100 i + 49].
FnSpan(i) == [lo |-> 100 * i, hi |-> 100 * i + 99]
ErrTySpan(i) == [lo |-> 100 * i + 30, hi |-> 100 * i + 49]

MkFn(shape, i) ==
    [fn_kind |-> shape.fn_kind,
     decl |-> [output |-> shape.ret.output,
               hir_ty |-> HirTy(shape.ret.path, shape.ret.args, ErrTySpan(i))],
     span |-> FnSpan(i)]

MkUnit(shapes) == [i \in 1..Len(shapes) |-> MkFn(shapes[i], i)]

SeqsUpTo(S, n) == UNION {[1..k -> S] : k \in 0..n}

Units ==
    {<<ct, MkUnit(<<s>>)>> : ct \in SUBSET CrateType, s \in FnShapes}
    \cup {<<ct, MkUnit(ss)>> : ct \in ScenarioCrateTypes,
                               ss \in SeqsUpTo(ScenarioShapes, MaxFns)}

(***************************************************************************)
(* The host.                                                               *)
(***************************************************************************)
Init ==
    /\ \E u \in Units : crate_types = u[1] /\ unit_fns = u[2]
    /\ self_is_library_crate = None
    /\ diags = <<>>
    /\ idx = 0
    /\ panicked = FALSE
    /\ crate_checked = FALSE
    /\ run = 1
    /\ pass_id = 1
    /\ prev_diags = <<>>

CheckCrate ==
    /\ ~panicked
    /\ check_crate
    /\ crate_checked' = TRUE
    /\ UNCHANGED <<crate_types, unit_fns, diags, idx, panicked, run, pass_id, prev_diags>>

CheckFn ==
    /\ ~panicked
    /\ idx < Len(unit_fns)
    /\ LET f == unit_fns[idx + 1]
       IN  check_fn(f.fn_kind, f.decl, f.span, idx + 1)
    /\ idx' = IF panicked' THEN idx ELSE idx + 1
    /\ UNCHANGED <<crate_types, unit_fns, crate_checked, run, pass_id, prev_diags>>

RunOver == ~panicked /\ idx = Len(unit_fns)

\* The unit is analysed again by a new pass object.
RerunFresh ==
    /\ run = 1
    /\ RunOver
    /\ self_is_library_crate' = None
    /\ pass_id' = pass_id + 1
    /\ prev_diags' = diags
    /\ diags' = <<>>
    /\ idx' = 0
    /\ crate_checked' = FALSE
    /\ run' = 2
    /\ UNCHANGED <<crate_types, unit_fns, panicked>>

\* The unit is analysed again by the same pass object.
RerunReuse ==
    /\ run = 1
    /\ RunOver
    /\ self_is_library_crate' = self_is_library_crate
    /\ pass_id' = pass_id
    /\ prev_diags' = diags
    /\ diags' = <<>>
    /\ idx' = 0
    /\ crate_checked' = FALSE
    /\ run' = 2
    /\ UNCHANGED <<crate_types, unit_fns, panicked>>

Next == CheckCrate \/ CheckFn \/ RerunFresh \/ RerunReuse

Spec == Init /\ [][Next]_vars

(***************************************************************************)
(* Vocabulary of the properties.                                           *)
(***************************************************************************)
Range(s) == {s[i] : i \in DOMAIN s}
BagOfSeq(s) == [d \in Range(s) |-> Cardinality({i \in DOMAIN s : s[i] = d})]

LibraryKinds == {"Cdylib", "Dylib", "Rlib", "ProcMacro", "Staticlib"}
ClassifiedLibrary == self_is_library_crate = Some(TRUE)

\* The body the next check_fn visits.
CurFn == unit_fns[idx + 1]
IsFunction(f) == f.fn_kind \in {"ItemFn", "Method"}

\* f is declared to return Result<_, t>, written with the Result type itself.
DeclaredErr(f, t) ==
    /\ f.decl.output = "Return"
    /\ f.decl.hir_ty.path = ResultDid
    /\ f.decl.hir_ty.args[2] = t
DeclaredErrIn(f, T) == \E t \in T : DeclaredErr(f, t)
\* f is declared to return the alias path<T>.
DeclaredAlias(f, path) ==
    f.decl.output = "Return" /\ f.decl.hir_ty.path = path

\* The step emits exactly one diagnostic, anchored at sp.
EmitsOneAt(sp) ==
    /\ Len(diags') = Len(diags) + 1
    /\ SubSeq(diags', 1, Len(diags)) = diags
    /\ diags'[Len(diags')].span = sp
EmitsOne ==
    /\ Len(diags') = Len(diags) + 1
    /\ SubSeq(diags', 1, Len(diags)) = diags

\* C1: a unit whose output kinds are empty or only the executable kind is
\* classified as non-library, check_crate stores Some(false), and no
\* diagnostic is ever emitted for it, whatever functions are visited.
C1_NonLibraryUnitEmitsNothing ==
    crate_types \subseteq {"Executable"} =>
        /\ ~is_library_crate(crate_types)
        /\ self_is_library_crate \in {None, Some(FALSE)}
        /\ (crate_checked => self_is_library_crate = Some(FALSE))
        /\ diags = <<>>
        /\ prev_diags = <<>>

C1_Witness ==
    /\ crate_types = {"Executable"}
    /\ self_is_library_crate = Some(FALSE)
    /\ idx = 1
    /\ IsFunction(unit_fns[1])
    /\ DeclaredErr(unit_fns[1], AnyhowErrorTy)
    /\ diags = <<>>

\* C2: a check_fn visit made while the classification is still unset ends
\* in the fatal state for every function: it is not counted as a completed
\* visit, leaves the classification unset and emits nothing.
C2_UnsetClassificationIsFatal ==
    [][(CheckFn /\ self_is_library_crate = None) =>
          /\ panicked'
          /\ idx' = idx
          /\ self_is_library_crate' = None
          /\ diags' = diags]_vars

C2_Witness ==
    /\ panicked
    /\ self_is_library_crate = None
    /\ crate_types = {"Rlib"}
    /\ idx = 0
    /\ IsFunction(unit_fns[1])
    /\ DeclaredErr(unit_fns[1], StringTy)
    /\ diags = <<>>

\* C3: in a library unit, one visit of a function or method returning
\* Result<_, String> emits exactly one diagnostic, located at the span the
\* signature extractor returned for the failure type and not at the span of
\* the whole function.
C3_StringFailureFlaggedAtErrSpan ==
    [][(/\ CheckFn
        /\ ClassifiedLibrary
        /\ IsFunction(CurFn)
        /\ DeclaredErr(CurFn, StringTy)) =>
          /\ EmitsOneAt(CurFn.decl.hir_ty.span)
          /\ diags'[Len(diags')].span # CurFn.span]_vars

C3_Witness ==
    /\ ClassifiedLibrary
    /\ idx = 1
    /\ unit_fns[1].fn_kind = "Method"
    /\ DeclaredErr(unit_fns[1], StringTy)
    /\ Len(diags) = 1
    /\ diags[1].span = ErrTySpan(1)

\* A Box whose pointee is a trait object with the Error trait among its
\* trait predicates.
IsBoxDynError(t) ==
    /\ t.kind = "Adt"
    /\ t.did = BoxDid
    /\ t.args[1].kind = "Dynamic"
    /\ \E p \in t.args[1].preds : p.tag = "Trait" /\ p.def_id = ErrorTraitDid
IsOtherBox(t) ==
    t.kind = "Adt" /\ t.did = BoxDid /\ ~IsBoxDynError(t)

\* C4: in a library unit, a function or method whose failure type is a Box
\* of a trait object having the Error trait among its predicates (alone or
\* with others) gets exactly one diagnostic per visit; a Box of anything
\* else gets none.
C4_BoxDynErrorFlagged ==
    [][(/\ CheckFn
        /\ ClassifiedLibrary
        /\ IsFunction(CurFn)
        /\ CurFn.decl.output = "Return"
        /\ CurFn.decl.hir_ty.path = ResultDid) =>
          LET t == CurFn.decl.hir_ty.args[2]
          IN  /\ IsBoxDynError(t) => EmitsOne
              /\ IsOtherBox(t) => diags' = diags]_vars

C4_Witness ==
    /\ ClassifiedLibrary
    /\ idx = 1
    /\ IsFunction(unit_fns[1])
    /\ DeclaredErr(unit_fns[1], BoxTy(DynErrorSendSync))
    /\ Len(diags) = 1

\* The unit of the anyhow fixture: a direct-form function and an alias-form
\* function.
AnyhowFixture ==
    MkUnit(<<[fn_kind |-> "ItemFn", ret |-> AnyhowDirect],
             [fn_kind |-> "ItemFn", ret |-> AnyhowAlias]>>)

\* C5: in a library unit, a function or method whose failure type is
\* anyhow::Error or eyre::Report, written directly or through the alias
\* anyhow::Result<T> / eyre::Result<T>, gets exactly one diagnostic per
\* visit; the unit with one direct-form and one alias-form function ends
\* with exactly two.
C5_AnyhowEyreFlagged ==
    [][/\ (/\ CheckFn
           /\ ClassifiedLibrary
           /\ IsFunction(CurFn)
           /\ \/ DeclaredErrIn(CurFn, {AnyhowErrorTy, EyreReportTy})
              \/ DeclaredAlias(CurFn, <<"anyhow", "Result">>)
              \/ DeclaredAlias(CurFn, <<"eyre", "Result">>)) => EmitsOne
       /\ (/\ unit_fns = AnyhowFixture
           /\ is_library_crate(crate_types)
           /\ idx' = 2) =>
             /\ Len(diags') = 2
             /\ diags'[1].span = ErrTySpan(1)
             /\ diags'[2].span = ErrTySpan(2)]_vars

C5_Witness ==
    /\ unit_fns = AnyhowFixture
    /\ crate_types = {"Rlib"}
    /\ idx = 2
    /\ Len(diags) = 2

\* A nominal type that is none of String, Box, anyhow::Error, eyre::Report.
IsUserNominal(t) ==
    /\ t.kind = "Adt"
    /\ t.did \notin {StringDid, BoxDid, <<"anyhow", "Error">>, <<"eyre", "Report">>}

\* C6: a function whose failure type is a user-defined nominal type is not
\* matched and gets no diagnostic, in a library unit and in any other.
C6_UserNominalNotFlagged ==
    [][(/\ CheckFn
        /\ CurFn.decl.output = "Return"
        /\ CurFn.decl.hir_ty.path = ResultDid
        /\ IsUserNominal(CurFn.decl.hir_ty.args[2])) =>
          /\ ~is_overly_generic_error_type(CurFn.decl.hir_ty.args[2])
          /\ diags' = diags]_vars

C6_Witness ==
    /\ ClassifiedLibrary
    /\ idx = 1
    /\ IsFunction(unit_fns[1])
    /\ DeclaredErr(unit_fns[1], Adt(<<"mycrate", "anyhow", "Error">>, <<>>))
    /\ diags = <<>>

\* C7: a set of output kinds classifies as library exactly when it contains
\* one of Cdylib, Dylib, Rlib, ProcMacro, Staticlib, that is, exactly when it
\* is neither empty nor the executable kind alone; the stored classification
\* is that answer.
C7_LibraryIffLibraryKind ==
    /\ is_library_crate(crate_types) <=> (crate_types \cap LibraryKinds # {})
    /\ is_library_crate(crate_types) <=> ~(crate_types \subseteq {"Executable"})
    /\ crate_checked =>
         self_is_library_crate = Some(crate_types \cap LibraryKinds # {})

C7_Witness ==
    /\ crate_types = {"Executable", "Staticlib"}
    /\ crate_checked
    /\ self_is_library_crate = Some(TRUE)

\* C8: within one analysis the classification changes only once, from unset
\* to the classifier's answer, in check_crate and before any function visit;
\* check_fn never changes it, and a set value is always the classifier's
\* answer for the unit.
C8_ClassificationSetOnce ==
    [][/\ (run' = run /\ self_is_library_crate' # self_is_library_crate) =>
             /\ self_is_library_crate = None
             /\ self_is_library_crate' = Some(is_library_crate(crate_types))
             /\ idx = 0 /\ idx' = 0
             /\ crate_checked'
             /\ diags' = diags
       /\ CheckFn => self_is_library_crate' = self_is_library_crate
       /\ self_is_library_crate' # None =>
             self_is_library_crate' = Some(is_library_crate(crate_types))]_vars

C8_Witness ==
    /\ run = 1
    /\ ClassifiedLibrary
    /\ idx = 2
    /\ DeclaredErr(unit_fns[1], AnyhowErrorTy)
    /\ DeclaredErr(unit_fns[2], MyErrorTy)
    /\ Len(diags) = 1

\* C9: a second analysis of the same unit (check_crate, then the same
\* visits) ends with the same multiset of diagnostics as the first, with a
\* new pass object as well as with the one the first analysis used.
C9_SecondRunSameDiagnostics ==
    (run = 2 /\ crate_checked /\ RunOver) =>
        BagOfSeq(diags) = BagOfSeq(prev_diags)

C9_Witness ==
    /\ run = 2
    /\ pass_id = 1
    /\ crate_checked
    /\ RunOver
    /\ Len(unit_fns) = 2
    /\ Len(diags) = 2
    /\ diags[1] # diags[2]

\* C10: in a library unit a visit of a closure emits nothing, whatever its
\* failure type, and so does a visit of a function for which the signature
\* extractor returns nothing.
C10_ClosuresAndNonResultsSkipped ==
    [][(/\ CheckFn
        /\ ClassifiedLibrary
        /\ \/ CurFn.fn_kind = "Closure"
           \/ result_err_ty(unit_fns, CurFn.decl, idx + 1, CurFn.span) = None) =>
          diags' = diags]_vars

C10_Witness ==
    /\ ClassifiedLibrary
    /\ idx = 2
    /\ unit_fns[1].fn_kind = "Closure"
    /\ DeclaredErr(unit_fns[1], StringTy)
    /\ IsFunction(unit_fns[2])
    /\ unit_fns[2].decl.output = "DefaultReturn"
    /\ diags = <<>>

====
